---- MODULE Spec2Model ----
(***************************************************************************)
(* A model of opendata-downloader.py: the command line is expanded into    *)
(* one batch per requested field (downloadGribDataSequence), each batch    *)
(* submits one job per (timestep, level) to a ThreadPoolExecutor, and the  *)
(* jobs (downloadGribData / downloadAndExtractBz2FileFromUrl) run          *)
(* concurrently against a shared filesystem.                               *)
(***************************************************************************)
EXTENDS Integers, Sequences, FiniteSets, TLC

\* ---------------------------------------------------------------- bounds
MaxWorkers == 2
MaxStep == 1
MaxLevel == 1
MaxCalls == 2
MaxJobs == 2
MaxPressure == 2
MaxRuns == 2
MaxDay == 1
MaxLevelArg == 2

\* ------------------------------------------------------------- vocabulary
Fields == {"u", "v"}
PressureValues == {500, 850}
LevTypes == <<"single-level", "model-level", "pressure-level", "time-invariant">>
None == <<>>
destRoot == <<"dest">>

SeqsUpTo(S, n) == UNION {[1..k -> S] : k \in 0..n}

\* a range that leaves out its upper bound: list(range(a, b))
RangeExclusive(a, b) == IF b <= a THEN <<>> ELSE [i \in 1..(b - a) |-> a + i - 1]

\* list(range(a, b + 1))
Range(a, b) == IF b < a THEN <<>> ELSE [i \in 1..(b - a + 1) |-> a + i - 1]

VARIABLES
    args,         \* the parsed command line (constant during a run)
    cfg,          \* selectedModel, the entry of models.json
    pc,           \* position of the main thread
    batch,        \* number of downloadGribDataSequence calls finished or begun
    jobs,         \* the futures of the current batch, in submission order
    collected,    \* indices of the futures as_completed has yielded
    results,      \* results of the current batch
    failedFiles,  \* the module-level failure list
    dirs,         \* directories that exist
    files,        \* path -> content of the files that exist
    netCalls,     \* urlopen calls made by this process
    exitStatus,   \* process exit status, read once pc is "exit" or "error"
    run,          \* number of the process run
    submitted,    \* every job this run has submitted, in order
    failedJobs,   \* number of jobs of this run whose fetch failed
    allWritten,   \* every job of this run so far wrote its file
    prevAllWritten, \* the previous run wrote the file of every one of its jobs
    latestTimestamp, \* the resolved model run, None until it is resolved
    utcnow        \* what datetime.utcnow() reads when the run is resolved

vars == <<args, cfg, pc, batch, jobs, collected, results, failedFiles,
          dirs, files, netCalls, exitStatus, run, submitted, failedJobs, allWritten, prevAllWritten,
          latestTimestamp, utcnow>>

\* ------------------------------------------------------------ timestamps
\* a datetime is <<day, hour, minute, second>>, the day counted from an epoch
StartClock == <<0, 5, 29, 59>>

\* a datetime that ignores the timedelta
MinusMinutesIgnored(t, w) == t
Minutes(t) == (t[1] * 24 + t[2]) * 60 + t[3]
Seconds(t) == Minutes(t) * 60 + t[4]
FromMinutes(m, sec) == <<m \div 1440, (m % 1440) \div 60, m % 60, sec>>

\* datetime - timedelta(minutes=w)
MinusMinutes(t, w) == FromMinutes(Minutes(t) - w, t[4])

\* --modelrun is <<day, d1, d2>>: the date and the two digits of the hour
ModelrunHour(m) == 10 * m[2] + m[3]

\* 67: datetime.strptime(modelrun, '%Y%m%d%H') raises ValueError for an hour
\* past 23
StrptimeRaises(m) == ModelrunHour(m) > 23
strptime(m) == <<m[1], ModelrunHour(m), 0, 0>>

\* 63-77
getMostRecentModelTimestamp(waitTimeMinutes, modelIntervalHours, modelrun, clock) ==
    IF modelrun # None THEN strptime(modelrun)
    ELSE LET now == MinusMinutes(clock, waitTimeMinutes)
             latestAvailableUTCRun == (now[2] \div modelIntervalHours) * modelIntervalHours
         IN <<now[1], latestAvailableUTCRun, 0, 0>>

\* "{modelrun:>02d}" of the hour of the run
Digit == <<"0", "1", "2", "3", "4", "5", "6", "7", "8", "9">>
TwoDigits(h) == IF h < 10 THEN "0" \o Digit[h + 1]
                ELSE Digit[(h \div 10) + 1] \o Digit[(h % 10) + 1]

\* ---------------------------------------------------------- globals (413-416)
dryRun == args.dryRun
compressed == args.compressed
skipExisting == args.skipexisting
maxWorkers == args.maxWorkers

\* --------------------------------------------------------- main (448-453)
timeSteps == Range(args.minTimeStep, args.maxTimeStep)
\* a lower bound that falls back to the model's only when both bounds are 0
minModelLevelBothZero ==
    IF args.minModelLevel = 0 /\ args.maxModelLevel = 0 THEN cfg.minlevel ELSE args.minModelLevel

minModelLevel == IF args.minModelLevel > 0 THEN args.minModelLevel ELSE cfg.minlevel
maxModelLevel == IF args.maxModelLevel > 0 THEN args.maxModelLevel ELSE cfg.maxlevel
levelRange == Range(minModelLevel, maxModelLevel)

\* one downloadGribDataSequence call per field, in the order of the four loops
CallsFor(params, levtype, levels) ==
    [i \in 1..Len(params) |-> [param |-> params[i], levtype |-> levtype, levelRange |-> levels]]

Calls ==
    CallsFor(args.single_level_params, "single-level", <<0>>)
    \o CallsFor(args.model_level_params, "model-level", levelRange)
    \o CallsFor(args.pressure_level_params, "pressure-level", args.pressureLevels)
    \o CallsFor(args.time_invariant_params, "time-invariant", <<0>>)

\* ------------------------------------------- downloadGribDataSequence
\* the !L conversion of the formatter, on the names the requests use
Lower(name) ==
    CASE name = "U" -> "u"
      [] name = "V" -> "v"
      [] OTHER -> name

\* a tree without the "grib" level of dwdPattern
DestDirWithoutGrib(call) ==
    IF args.flat THEN destRoot
    ELSE destRoot \o <<Lower(cfg.model), TwoDigits(latestTimestamp[2]), Lower(call.param)>>

\* dwdPattern (44) = "{model!L}/grib/{modelrun:>02d}/{param!L}"
DestDir(call) ==
    IF args.flat THEN destRoot
    ELSE destRoot \o <<Lower(cfg.model), "grib", TwoDigits(latestTimestamp[2]), Lower(call.param)>>

\* the (timestep, level) pairs in the order of the nested loops (209-219)
SubmitOrder(call) ==
    [k \in 1..(Len(timeSteps) * Len(call.levelRange)) |->
        [param |-> call.param,
         levtype |-> call.levtype,
         timestep |-> timeSteps[((k - 1) \div Len(call.levelRange)) + 1],
         level |-> call.levelRange[((k - 1) % Len(call.levelRange)) + 1],
         destFilePath |-> DestDir(call)]]

\* ------------------------------------------------------- getGribFileUrl
\* cfg["pattern"][levtype] raises KeyError for a level type without pattern
UrlKnown(job) == job.levtype \in DOMAIN cfg.pattern

\* a URL pattern is the set of the placeholders of the job it contains; the
\* rendered URL has a part for each of them and none for the others (no URL is
\* rendered for a level type without pattern: the worker has raised by then)
Part(pattern, placeholder, value) == IF placeholder \in pattern THEN <<value>> ELSE <<>>

getGribFileUrl(job) ==
    LET url == IF UrlKnown(job) THEN cfg.pattern[job.levtype] ELSE {} IN
      <<cfg.model, TwoDigits(latestTimestamp[2]), Part(url, "param", job.param), job.levtype,
        Part(url, "step", job.timestep), Part(url, "level", job.level)>>

\* --------------------------------------- downloadAndExtractBz2FileFromUrl
\* url.split('/')[-1].split('.bz2')[0]
destFileName(url) == <<url[4], url[5], url[6], url[3]>>

fullFilePath(job) ==
    <<job.destFilePath, destFileName(getGribFileUrl(job)), compressed>>

Exists(path) == path \in DOMAIN files

Prefixes(d) == {SubSeq(d, 1, k) : k \in 1..Len(d)}

\* ------------------------------------------------------------ job states
\* st: "queued" in the executor's work queue, "picked" by a worker thread,
\* "fetch" before urlopen, "write" before open(), "done" when the future is set.
\* ret is the return value of downloadAndExtractBz2FileFromUrl; kind records
\* which path through the worker set the future.
Running(j) == j.st \in {"picked", "fetch", "write"}
RunningJobs == {i \in 1..Len(jobs) : Running(jobs[i])}
AllDone == \A i \in 1..Len(jobs) : jobs[i].st = "done"
CurrentCall == Calls[batch]

SetJob(i, st, ret, kind) ==
    jobs' = [jobs EXCEPT ![i] = [@ EXCEPT !.st = st, !.ret = ret, !.kind = kind]]

\* ------------------------------------------------------------ main thread
\* main, 427-431: the model run is resolved before any call; strptime raises
\* for an impossible hour, the division for a run interval of 0
ResolveTimestamp ==
    /\ pc = "start"
    /\ IF \/ (args.modelrun # None /\ StrptimeRaises(args.modelrun))
          \/ (args.modelrun = None /\ cfg.intervalHours = 0)
         THEN /\ pc' = "error"
              /\ exitStatus' = 1
              /\ UNCHANGED latestTimestamp
         ELSE /\ latestTimestamp' =
                   getMostRecentModelTimestamp(cfg.openDataDeliveryOffsetMinutes,
                                               cfg.intervalHours, args.modelrun, utcnow)
              /\ pc' = "main"
              /\ UNCHANGED exitStatus
    /\ UNCHANGED <<args, cfg, utcnow, batch, jobs, collected, results, failedFiles, dirs, files,
                   netCalls, run, submitted, failedJobs, allWritten, prevAllWritten>>

\* a call that creates its directory under --dry-run too
EnterSequenceAlwaysMkdir ==
    /\ pc = "main"
    /\ batch < Len(Calls)
    /\ batch' = batch + 1
    /\ dirs' = dirs \cup Prefixes(DestDir(Calls[batch + 1]))
    /\ jobs' = <<>>
    /\ collected' = {}
    /\ results' = <<>>
    /\ pc' = "executor"
    /\ UNCHANGED <<args, cfg, latestTimestamp, utcnow, failedFiles, files, netCalls, exitStatus, run, submitted,
                   failedJobs, allWritten, prevAllWritten>>

\* 202: os.makedirs without exist_ok raises FileExistsError for a path that is
\* already there
makedirsRaises(path) == path \in dirs

\* a call that creates its directory without looking for it first
MissingUntested(dfp) == TRUE

\* 198: not os.path.exists(dfp)
Missing(dfp) == dfp \notin dirs

\* main, 455-497: the next downloadGribDataSequence call, up to 202
EnterSequence ==
    /\ pc = "main"
    /\ batch < Len(Calls)
    /\ batch' = batch + 1
    /\ LET dfp == DestDir(Calls[batch + 1]) IN
         IF Missing(dfp) /\ ~dryRun
           THEN IF makedirsRaises(dfp)
                  THEN pc' = "error" /\ exitStatus' = 1 /\ UNCHANGED dirs
                  ELSE /\ pc' = "executor"
                       /\ dirs' = dirs \cup Prefixes(dfp)
                       /\ UNCHANGED exitStatus
           ELSE pc' = "executor" /\ UNCHANGED <<dirs, exitStatus>>
    /\ jobs' = <<>>
    /\ collected' = {}
    /\ results' = <<>>
    /\ UNCHANGED <<args, cfg, latestTimestamp, utcnow, failedFiles, files, netCalls, run, submitted,
                   failedJobs, allWritten, prevAllWritten>>

\* a pool that takes a concurrency below 1 and starts no thread
OpenExecutorAcceptsAny ==
    /\ pc = "executor"
    /\ pc' = IF Len(SubmitOrder(CurrentCall)) = 0 THEN "collect" ELSE "submit"
    /\ UNCHANGED <<args, cfg, latestTimestamp, utcnow, batch, jobs, collected, results, failedFiles,
                   dirs, files, netCalls, exitStatus, run, submitted, failedJobs,
                   allWritten, prevAllWritten>>

\* a call that rejects an empty step range or level list
OpenExecutorRejectsEmpty ==
    /\ pc = "executor"
    /\ IF maxWorkers <= 0 \/ Len(SubmitOrder(CurrentCall)) = 0
         THEN pc' = "error" /\ exitStatus' = 1
         ELSE pc' = "submit" /\ UNCHANGED exitStatus
    /\ UNCHANGED <<args, cfg, latestTimestamp, utcnow, batch, jobs, collected, results, failedFiles,
                   dirs, files, netCalls, run, submitted, failedJobs, allWritten, prevAllWritten>>

\* 207: ThreadPoolExecutor(max_workers=maxWorkers) raises ValueError below 1
OpenExecutor ==
    /\ pc = "executor"
    /\ IF maxWorkers <= 0
         THEN pc' = "error" /\ exitStatus' = 1
         ELSE /\ pc' = IF Len(SubmitOrder(CurrentCall)) = 0 THEN "collect" ELSE "submit"
              /\ UNCHANGED exitStatus
    /\ UNCHANGED <<args, cfg, latestTimestamp, utcnow, batch, jobs, collected, results, failedFiles,
                   dirs, files, netCalls, run, submitted, failedJobs, allWritten, prevAllWritten>>

\* 209-219: executor.submit of the next (timestep, level)
Submit ==
    /\ pc = "submit"
    /\ LET order == SubmitOrder(CurrentCall)
           n == Len(jobs) + 1 IN
         /\ jobs' = Append(jobs, [job |-> order[n], st |-> "queued", ret |-> None, kind |-> "none"])
         /\ submitted' = Append(submitted, order[n])
         /\ pc' = IF n = Len(order) THEN "collect" ELSE "submit"
    /\ UNCHANGED <<args, cfg, latestTimestamp, utcnow, batch, collected, results, failedFiles,
                   dirs, files, netCalls, exitStatus, run, failedJobs, allWritten, prevAllWritten>>

\* an as_completed loop that drops what a job raised
CollectSwallows(i) ==
    /\ pc = "collect"
    /\ i \in 1..Len(jobs)
    /\ i \notin collected
    /\ jobs[i].st = "done"
    /\ collected' = collected \cup {i}
    /\ results' = Append(results, [url |-> getGribFileUrl(jobs[i].job), file |-> jobs[i].ret])
    /\ UNCHANGED <<args, cfg, latestTimestamp, utcnow, pc, batch, jobs, failedFiles, dirs, files,
                   netCalls, exitStatus, run, submitted, failedJobs, allWritten, prevAllWritten>>

\* 221-224: as_completed yields a finished future; future.result() re-raises
\* what the job raised, which leaves the with block
Collect(i) ==
    /\ pc = "collect"
    /\ i \in 1..Len(jobs)
    /\ i \notin collected
    /\ jobs[i].st = "done"
    /\ collected' = collected \cup {i}
    /\ IF jobs[i].kind = "raised"
         THEN pc' = "unwind" /\ UNCHANGED results
         ELSE /\ results' = Append(results, [url |-> getGribFileUrl(jobs[i].job), file |-> jobs[i].ret])
              /\ UNCHANGED pc
    /\ UNCHANGED <<args, cfg, latestTimestamp, utcnow, batch, jobs, failedFiles, dirs, files, netCalls,
                   exitStatus, run, submitted, failedJobs, allWritten, prevAllWritten>>

\* a return that does not wait for the futures still running
ReturnSequenceEarly ==
    /\ pc = "collect"
    /\ pc' = "main"
    /\ UNCHANGED <<args, cfg, latestTimestamp, utcnow, batch, jobs, collected, results, failedFiles,
                   dirs, files, netCalls, exitStatus, run, submitted, failedJobs,
                   allWritten, prevAllWritten>>

\* a return as soon as the first future has been collected
ReturnSequenceFirstResult ==
    /\ pc = "collect"
    /\ collected # {} \/ Len(jobs) = 0
    /\ pc' = "main"
    /\ UNCHANGED <<args, cfg, latestTimestamp, utcnow, batch, jobs, collected, results, failedFiles,
                   dirs, files, netCalls, exitStatus, run, submitted, failedJobs,
                   allWritten, prevAllWritten>>

\* 226: the with block is left (shutdown waits for every job), results returned
ReturnSequence ==
    /\ pc = "collect"
    /\ collected = 1..Len(jobs)
    /\ AllDone
    /\ pc' = "main"
    /\ UNCHANGED <<args, cfg, latestTimestamp, utcnow, batch, jobs, collected, results, failedFiles,
                   dirs, files, netCalls, exitStatus, run, submitted, failedJobs, allWritten, prevAllWritten>>

\* the exception leaves the with block: executor.shutdown(wait=True) lets the
\* queued and running jobs finish, then the traceback ends the process
Unwind ==
    /\ pc = "unwind"
    /\ AllDone
    /\ pc' = "error"
    /\ exitStatus' = 1
    /\ UNCHANGED <<args, cfg, latestTimestamp, utcnow, batch, jobs, collected, results, failedFiles,
                   dirs, files, netCalls, run, submitted, failedJobs, allWritten, prevAllWritten>>

\* the script ends after the last loop (the report and sys.exit(len(failedFiles))
\* of 499-509 are inside a string literal and never run)
Exit ==
    /\ pc = "main"
    /\ batch = Len(Calls)
    /\ pc' = "exit"
    /\ exitStatus' = 0
    /\ UNCHANGED <<args, cfg, latestTimestamp, utcnow, batch, jobs, collected, results, failedFiles,
                   dirs, files, netCalls, run, submitted, failedJobs, allWritten, prevAllWritten>>

\* ---------------------------------------------------------- worker threads
\* a pool that starts a thread for every work item
PickupUnbounded(i) ==
    /\ i \in 1..Len(jobs)
    /\ jobs[i].st = "queued"
    /\ \A k \in 1..(i - 1) : jobs[k].st # "queued"
    /\ SetJob(i, "picked", None, "none")
    /\ UNCHANGED <<args, cfg, latestTimestamp, utcnow, pc, batch, collected, results, failedFiles,
                   dirs, files, netCalls, exitStatus, run, submitted, failedJobs,
                   allWritten, prevAllWritten>>

\* a worker thread of the pool takes the oldest work item; the pool never has
\* more than max_workers threads
Pickup(i) ==
    /\ i \in 1..Len(jobs)
    /\ jobs[i].st = "queued"
    /\ \A k \in 1..(i - 1) : jobs[k].st # "queued"
    /\ Cardinality(RunningJobs) < maxWorkers
    /\ SetJob(i, "picked", None, "none")
    /\ UNCHANGED <<args, cfg, latestTimestamp, utcnow, pc, batch, collected, results, failedFiles,
                   dirs, files, netCalls, exitStatus, run, submitted, failedJobs, allWritten, prevAllWritten>>

\* a worker without the skip-existing test of 99-101
BeginOutcomeNoSkip(j) ==
    IF ~UrlKnown(j.job) THEN "raised"
    ELSE IF dryRun THEN "dry"
    ELSE "fetch"

\* a worker that tests for the file name without the .bz2 suffix of 95-96
BeginOutcomeIgnoresSuffix(j) ==
    IF ~UrlKnown(j.job) THEN "raised"
    ELSE IF dryRun THEN "dry"
    ELSE IF skipExisting
            /\ Exists(<<j.job.destFilePath, destFileName(getGribFileUrl(j.job)), FALSE>>)
      THEN "skipped"
    ELSE "fetch"

\* downloadGribData 160-169 and downloadAndExtractBz2FileFromUrl 82-101
BeginOutcome(j) ==
    IF ~UrlKnown(j.job) THEN "raised"
    ELSE IF dryRun THEN "dry"
    ELSE IF skipExisting /\ Exists(fullFilePath(j.job)) THEN "skipped"
    ELSE "fetch"

\* a worker that reports the destination path under --dry-run, as the skip of
\* 99-101 does
BeginDryReturnsPath(i) ==
    /\ i \in 1..Len(jobs)
    /\ jobs[i].st = "picked"
    /\ LET o == BeginOutcome(jobs[i]) IN
         /\ CASE o = "fetch" -> SetJob(i, "fetch", None, "none")
              [] o \in {"skipped", "dry"} -> SetJob(i, "done", fullFilePath(jobs[i].job), o)
              [] OTHER -> SetJob(i, "done", None, o)
         /\ allWritten' = (allWritten /\ o = "fetch")
    /\ UNCHANGED <<args, cfg, latestTimestamp, utcnow, pc, batch, collected, results, failedFiles,
                   dirs, files, netCalls, exitStatus, run, submitted, failedJobs, prevAllWritten>>

Begin(i) ==
    /\ i \in 1..Len(jobs)
    /\ jobs[i].st = "picked"
    /\ LET o == BeginOutcome(jobs[i]) IN
         /\ CASE o = "fetch" -> SetJob(i, "fetch", None, "none")
              [] o = "skipped" -> SetJob(i, "done", fullFilePath(jobs[i].job), "skipped")
              [] OTHER -> SetJob(i, "done", None, o)
         /\ allWritten' = (allWritten /\ o = "fetch")
    /\ UNCHANGED <<args, cfg, latestTimestamp, utcnow, pc, batch, collected, results, failedFiles,
                   dirs, files, netCalls, exitStatus, run, submitted, failedJobs, prevAllWritten>>

\* 104-109: urlopen, read, bz2.decompress, and the handlers of 115-119
FetchOutcomes == IF compressed THEN {"ok", "http", "transport"}
                 ELSE {"ok", "http", "transport", "decompress"}

\* 115-117 append to failedFiles; 118-119 only log
Recorded(kind) == kind = "http"

\* a worker without the handlers of 115-119: the exception reaches the future
FailRaises(i, kind) ==
    /\ SetJob(i, "done", None, "raised")
    /\ UNCHANGED failedFiles
    /\ failedJobs' = failedJobs + 1
    /\ allWritten' = FALSE

\* a worker that starts over after a failure
FailRetries(i, kind) ==
    /\ SetJob(i, "fetch", None, "none")
    /\ UNCHANGED <<failedFiles, failedJobs, allWritten>>

Fail(i, kind) ==
    /\ SetJob(i, "done", None, kind)
    /\ failedFiles' = IF Recorded(kind)
                        THEN Append(failedFiles, getGribFileUrl(jobs[i].job))
                        ELSE failedFiles
    /\ failedJobs' = failedJobs + 1
    /\ allWritten' = FALSE

\* the filesystem after path has been given the content
PutFile(path, content) ==
    [p \in DOMAIN files \cup {path} |-> IF p = path THEN content ELSE files[p]]

\* a worker that opens its destination file for writing before it fetches
FetchOpensFirst(i) ==
    /\ i \in 1..Len(jobs)
    /\ jobs[i].st = "fetch"
    /\ netCalls' = netCalls + 1
    /\ \E o \in FetchOutcomes :
         IF o = "ok"
           THEN /\ SetJob(i, "write", None, "none")
                /\ UNCHANGED <<failedFiles, failedJobs, allWritten, files>>
           ELSE /\ Fail(i, o)
                /\ files' = PutFile(fullFilePath(jobs[i].job), "truncated")
    /\ UNCHANGED <<args, cfg, latestTimestamp, utcnow, pc, batch, collected, results,
                   dirs, exitStatus, run, submitted, prevAllWritten>>

Fetch(i) ==
    /\ i \in 1..Len(jobs)
    /\ jobs[i].st = "fetch"
    /\ netCalls' = netCalls + 1
    /\ \E o \in FetchOutcomes :
         IF o = "ok"
           THEN SetJob(i, "write", None, "none") /\ UNCHANGED <<failedFiles, failedJobs, allWritten>>
           ELSE Fail(i, o)
    /\ UNCHANGED <<args, cfg, latestTimestamp, utcnow, pc, batch, collected, results,
                   dirs, files, exitStatus, run, submitted, prevAllWritten>>

\* 111-114: open(fullFilePath, 'wb') and write; an OSError of either is caught
\* at 118. open may fail (nothing changes) or write may fail after open has
\* created or truncated the file.
Write(i) ==
    /\ i \in 1..Len(jobs)
    /\ jobs[i].st = "write"
    /\ LET path == fullFilePath(jobs[i].job) IN
       \E o \in {"ok", "openfail", "writefail"} :
         CASE o = "ok" ->
                /\ files' = PutFile(path, "complete")
                /\ SetJob(i, "done", path, "written")
                /\ UNCHANGED <<failedFiles, failedJobs, allWritten>>
           [] o = "openfail" ->
                /\ UNCHANGED files
                /\ Fail(i, "fs")
           [] o = "writefail" ->
                /\ files' = PutFile(path, "truncated")
                /\ Fail(i, "fs")
    /\ UNCHANGED <<args, cfg, latestTimestamp, utcnow, pc, batch, collected, results,
                   dirs, netCalls, exitStatus, run, submitted, prevAllWritten>>

\* ------------------------------------------------------------ a new process
\* the same command line is run again on the filesystem the last run left,
\* with or without --dry-run
Rerun ==
    /\ pc \in {"exit", "error"}
    /\ run < MaxRuns
    /\ run' = run + 1
    /\ \E d \in BOOLEAN : args' = [args EXCEPT !.dryRun = d]
    /\ prevAllWritten' = (pc = "exit" /\ allWritten)
    /\ pc' = "main"
    /\ batch' = 0
    /\ jobs' = <<>>
    /\ collected' = {}
    /\ results' = <<>>
    /\ failedFiles' = <<>>
    /\ netCalls' = 0
    /\ exitStatus' = 0
    /\ submitted' = <<>>
    /\ failedJobs' = 0
    /\ allWritten' = TRUE
    /\ UNCHANGED <<cfg, dirs, files, latestTimestamp, utcnow>>

\* ------------------------------------------------------------------- Init
\* models.json entries: one with every level-type pattern and its own level
\* bounds, one with the single-level pattern only and no level bounds. The
\* files of a single level have no level in their name, time-invariant files
\* neither step nor level.
Catalog ==
    { [model |-> "icon-eu",
       pattern |-> ("single-level" :> {"param", "step"})
                   @@ ("model-level" :> {"param", "step", "level"})
                   @@ ("pressure-level" :> {"param", "step", "level"})
                   @@ ("time-invariant" :> {"param"}),
       minlevel |-> 1, maxlevel |-> 2,
       openDataDeliveryOffsetMinutes |-> 300, intervalHours |-> 3],
      [model |-> "cosmo-d2", pattern |-> ("single-level" :> {"param", "step"}), minlevel |-> 0, maxlevel |-> 0,
       openDataDeliveryOffsetMinutes |-> 90, intervalHours |-> 3] }

\* the fields asked for, as (level-type, field) pairs in the order of the four
\* loops of main
CallLists(n) ==
    {cl \in SeqsUpTo((1..Len(LevTypes)) \X Fields, n) :
        \A k \in 1..(Len(cl) - 1) : cl[k][1] <= cl[k + 1][1]}

ParamsOf(cl, t) ==
    LET sel == SelectSeq(cl, LAMBDA c : LevTypes[c[1]] = t)
    IN [k \in 1..Len(sel) |-> sel[k][2]]

\* arguments of a level type without fields keep their argparse defaults
Requests(n) ==
    {[single_level_params |-> ParamsOf(cl, "single-level"),
      model_level_params |-> ParamsOf(cl, "model-level"),
      pressure_level_params |-> ParamsOf(cl, "pressure-level"),
      time_invariant_params |-> ParamsOf(cl, "time-invariant"),
      minTimeStep |-> st[1], maxTimeStep |-> st[2],
      minModelLevel |-> lv[1], maxModelLevel |-> lv[2],
      pressureLevels |-> pl] :
        cl \in CallLists(n), st \in (0..MaxStep) \X (0..MaxStep),
        lv \in (0..MaxLevel) \X (0..MaxLevel), pl \in SeqsUpTo(PressureValues, MaxPressure)}

Pruned(r) ==
    /\ r.model_level_params = <<>> => r.minModelLevel = 0 /\ r.maxModelLevel = 0
    /\ r.pressure_level_params = <<>> => r.pressureLevels = <<>>

\* the state once main has resolved the model run (430-431)
InitRun ==
    /\ pc = "main"
    /\ batch = 0
    /\ jobs = <<>>
    /\ collected = {}
    /\ results = <<>>
    /\ failedFiles = <<>>
    /\ dirs = {destRoot}
    /\ files = <<>>
    /\ netCalls = 0
    /\ exitStatus = 0
    /\ run = 1
    /\ submitted = <<>>
    /\ failedJobs = 0
    /\ allWritten = TRUE
    /\ prevAllWritten = FALSE
    /\ utcnow = StartClock
    /\ latestTimestamp = getMostRecentModelTimestamp(cfg.openDataDeliveryOffsetMinutes,
                                                      cfg.intervalHours, args.modelrun, utcnow)

\* the number of jobs the whole run submits
RECURSIVE SumJobs(_)
SumJobs(k) == IF k = 0 THEN 0 ELSE Len(SubmitOrder(Calls[k])) + SumJobs(k - 1)
TotalJobs == SumJobs(Len(Calls))

\* one process run with every worker outcome: runs of at most MaxJobs jobs,
\* the layout flags at their defaults
Init ==
    /\ \E r \in {q \in Requests(MaxCalls) : Pruned(q)} :
       \E d \in BOOLEAN, s \in BOOLEAN, w \in 0..MaxWorkers :
         args = r @@ [dryRun |-> d, compressed |-> FALSE, skipexisting |-> s, flat |-> FALSE,
                      maxWorkers |-> w, modelrun |-> None]
    /\ cfg \in Catalog
    /\ InitRun
    /\ TotalJobs <= MaxJobs

\* the steps a dry run can take (82-84 returns before any fetch or write)
NextDry ==
    \/ EnterSequence
    \/ OpenExecutor
    \/ Submit
    \/ \E i \in 1..Len(jobs) : Collect(i)
    \/ ReturnSequence
    \/ Unwind
    \/ Exit
    \/ \E i \in 1..Len(jobs) : Pickup(i)
    \/ \E i \in 1..Len(jobs) : Begin(i)

Next ==
    \/ NextDry
    \/ \E i \in 1..Len(jobs) : Fetch(i)
    \/ \E i \in 1..Len(jobs) : Write(i)

Spec == Init /\ [][Next]_vars

\* the same command line run up to MaxRuns times on one filesystem: a single
\* field, every combination of the flags
InitRerun ==
    /\ \E r \in {q \in Requests(1) : Pruned(q)} :
       \E d \in BOOLEAN, s \in BOOLEAN, c \in BOOLEAN, f \in BOOLEAN, w \in 1..MaxWorkers :
         args = r @@ [dryRun |-> d, compressed |-> c, skipexisting |-> s, flat |-> f,
                      maxWorkers |-> w, modelrun |-> None]
    /\ cfg \in Catalog
    /\ InitRun
    /\ TotalJobs <= MaxJobs

NextRerun ==
    \/ Next
    \/ Rerun

SpecRerun == InitRerun /\ [][NextRerun]_vars

\* dry runs of requests of every size the argument ranges allow
InitDry ==
    /\ \E r \in {q \in Requests(MaxCalls) : Pruned(q)} :
       \E f \in BOOLEAN, w \in 1..MaxWorkers :
         args = r @@ [dryRun |-> TRUE, compressed |-> FALSE, skipexisting |-> TRUE, flat |-> f,
                      maxWorkers |-> w, modelrun |-> None]
    /\ cfg \in Catalog
    /\ InitRun

SpecDry == InitDry /\ [][NextDry]_vars

\* a process from its start: the --modelrun argument absent, valid or with an
\* impossible hour
\* the number of jobs the request expands to (448-497)
RequestJobs ==
    Len(timeSteps) * (Len(args.single_level_params) + Len(args.time_invariant_params)
                      + Len(args.model_level_params) * Len(levelRange)
                      + Len(args.pressure_level_params) * Len(args.pressureLevels))

StartModelruns == {None, <<0, 1, 2>>, <<0, 2, 4>>}

InitStart ==
    /\ \E r \in {q \in Requests(MaxCalls) : Pruned(q)} :
       \E d \in BOOLEAN, s \in BOOLEAN, w \in 0..MaxWorkers, mr \in StartModelruns :
         args = r @@ [dryRun |-> d, compressed |-> FALSE, skipexisting |-> s, flat |-> FALSE,
                      maxWorkers |-> w, modelrun |-> mr]
    /\ cfg \in Catalog
    /\ pc = "start"
    /\ batch = 0
    /\ jobs = <<>>
    /\ collected = {}
    /\ results = <<>>
    /\ failedFiles = <<>>
    /\ dirs = {destRoot}
    /\ files = <<>>
    /\ netCalls = 0
    /\ exitStatus = 0
    /\ run = 1
    /\ submitted = <<>>
    /\ failedJobs = 0
    /\ allWritten = TRUE
    /\ prevAllWritten = FALSE
    /\ utcnow = StartClock
    /\ latestTimestamp = None
    /\ RequestJobs <= MaxJobs

NextStart ==
    \/ ResolveTimestamp
    \/ Next

SpecStart == InitStart /\ [][NextStart]_vars

\* the resolution of the model run alone: every clock reading of a few days,
\* publication delays from none to more than a day, run intervals that divide
\* the day and some that do not
Clock == (0..MaxDay) \X (0..23) \X {0, 29, 59} \X {0, 59}
Delays == {0, 1, 90, 300, 1500}
Intervals == {0, 1, 2, 3, 4, 5, 6, 8, 12, 24}
ClockModelruns == {None, <<0, 0, 0>>, <<1, 2, 3>>, <<1, 2, 4>>}

InitClock ==
    /\ \E mr \in ClockModelruns :
         args = [single_level_params |-> <<"u">>, model_level_params |-> <<>>,
                 pressure_level_params |-> <<>>, time_invariant_params |-> <<>>,
                 minTimeStep |-> 0, maxTimeStep |-> 0, minModelLevel |-> 0, maxModelLevel |-> 0,
                 pressureLevels |-> <<>>, dryRun |-> TRUE, compressed |-> FALSE,
                 skipexisting |-> FALSE, flat |-> FALSE, maxWorkers |-> 1, modelrun |-> mr]
    /\ \E w \in Delays, h \in Intervals :
         cfg = [model |-> "icon-eu", pattern |-> ("single-level" :> {"param", "step"}), minlevel |-> 0, maxlevel |-> 0,
                openDataDeliveryOffsetMinutes |-> w, intervalHours |-> h]
    /\ utcnow \in Clock
    /\ latestTimestamp = None
    /\ pc = "start"
    /\ batch = 0
    /\ jobs = <<>>
    /\ collected = {}
    /\ results = <<>>
    /\ failedFiles = <<>>
    /\ dirs = {destRoot}
    /\ files = <<>>
    /\ netCalls = 0
    /\ exitStatus = 0
    /\ run = 1
    /\ submitted = <<>>
    /\ failedJobs = 0
    /\ allWritten = TRUE
    /\ prevAllWritten = FALSE

SpecClock == InitClock /\ [][ResolveTimestamp]_vars

\* dry runs of model-level requests over every pair of level bounds, against
\* models whose own lowest level is 0 or 1
LevelCatalog ==
    Catalog \cup
    { [model |-> "icon-d2",
       pattern |-> ("single-level" :> {"param", "step"}) @@ ("model-level" :> {"param", "step", "level"}),
       minlevel |-> 0, maxlevel |-> 3,
       openDataDeliveryOffsetMinutes |-> 90, intervalHours |-> 3] }

InitLevels ==
    /\ \E fs \in {<<"u">>, <<"u", "v">>}, lv \in (0..MaxLevelArg) \X (0..MaxLevelArg),
          w \in 1..MaxWorkers :
         args = [single_level_params |-> <<>>, model_level_params |-> fs,
                 pressure_level_params |-> <<>>, time_invariant_params |-> <<>>,
                 minTimeStep |-> 0, maxTimeStep |-> 0,
                 minModelLevel |-> lv[1], maxModelLevel |-> lv[2],
                 pressureLevels |-> <<>>, dryRun |-> TRUE, compressed |-> FALSE,
                 skipexisting |-> TRUE, flat |-> FALSE, maxWorkers |-> w, modelrun |-> None]
    /\ cfg \in LevelCatalog
    /\ InitRun

SpecLevels == InitLevels /\ [][NextDry]_vars

\* real runs of one single-level or time-invariant field, its name in lower or
\* upper case, under every layout, with and without an explicit model run
LayoutFields == {"u", "V"}

InitLayout ==
    /\ \E t \in {"single-level", "time-invariant"}, f \in LayoutFields,
          st \in (0..MaxStep) \X (0..MaxStep), fl \in BOOLEAN, c \in BOOLEAN,
          w \in 1..MaxWorkers, mr \in {None, <<0, 1, 2>>} :
         args = [single_level_params |-> IF t = "single-level" THEN <<f>> ELSE <<>>,
                 time_invariant_params |-> IF t = "time-invariant" THEN <<f>> ELSE <<>>,
                 model_level_params |-> <<>>, pressure_level_params |-> <<>>,
                 minTimeStep |-> st[1], maxTimeStep |-> st[2],
                 minModelLevel |-> 0, maxModelLevel |-> 0,
                 pressureLevels |-> <<>>, dryRun |-> FALSE, compressed |-> c,
                 skipexisting |-> FALSE, flat |-> fl, maxWorkers |-> w, modelrun |-> mr]
    /\ cfg \in Catalog
    /\ InitRun

SpecLayout == InitLayout /\ [][Next]_vars

\* ================================================================ properties
FailKinds == {"http", "transport", "decompress", "fs"}
Outcome(j) == [url |-> getGribFileUrl(j.job), file |-> j.ret]
CountIn(seq, x) == Cardinality({k \in 1..Len(seq) : seq[k] = x})
Returned == pc = "main" /\ batch >= 1

\* C1: when downloadGribDataSequence returns, every job of the call has been
\* submitted and has finished, and results holds exactly one outcome per job
\* (as many entries as jobs, each outcome as often as jobs produced it), for
\* every concurrency >= 1.
C1_AllOutcomesOnReturn ==
    Returned =>
      /\ Len(jobs) = Len(SubmitOrder(CurrentCall))
      /\ AllDone
      /\ Len(results) = Len(jobs)
      /\ \A i \in 1..Len(jobs) :
           CountIn(results, Outcome(jobs[i]))
             = Cardinality({k \in 1..Len(jobs) : Outcome(jobs[k]) = Outcome(jobs[i])})

\* a call of two jobs has returned from a pool of one worker
C1_Witness ==
    Returned /\ maxWorkers = 1 /\ Len(results) >= 2

\* C2: a failed fetch never aborts the run. The run ends in an error only
\* when the executor rejects the concurrency or a job has no URL pattern; while
\* jobs have failed and the process has not ended, a next step is always
\* possible; and a run with failed jobs that ends normally has made every call
\* and collected every job.
C2_FailureNeverAborts ==
    /\ pc \in {"unwind", "error"} =>
         (maxWorkers <= 0 \/ \E i \in 1..Len(jobs) : ~UrlKnown(jobs[i].job))
    /\ (failedJobs > 0 /\ pc \notin {"exit", "error"}) => ENABLED Next
    /\ (failedJobs > 0 /\ pc = "exit") =>
         (batch = Len(Calls) /\ AllDone /\ collected = 1..Len(jobs))

\* the job of the first call failed, the second call ran and wrote its file
C2_Witness ==
    /\ pc = "exit"
    /\ batch = 2
    /\ failedJobs = 1
    /\ Len(jobs) = 1
    /\ jobs[1].kind = "written"

\* C3: the number of jobs a worker thread is executing never exceeds
\* maxWorkers.
C3_PoolBounded == Cardinality(RunningJobs) <= maxWorkers

\* the pool is full while a job waits in the queue
C3_Witness ==
    /\ Cardinality(RunningJobs) = maxWorkers
    /\ \E i \in 1..Len(jobs) : jobs[i].st = "queued"

\* C4: when a call has returned, failedFiles holds one entry per job of the
\* run whose fetch failed.
C4_EveryFailureRecorded ==
    Returned => Len(failedFiles) = failedJobs

\* C5 as claimed: a worker that begins with skip-existing set and its file
\* present returns the file's path as a skip and makes no network call, under
\* every flag combination.
C5_SkipUnderEveryFlag ==
    [][\A i \in 1..Len(jobs) :
         (/\ jobs[i].st = "picked"
          /\ skipExisting
          /\ Exists(fullFilePath(jobs[i].job))
          /\ jobs'[i].st # "picked")
         => (/\ jobs'[i].st = "done"
             /\ jobs'[i].kind = "skipped"
             /\ jobs'[i].ret = fullFilePath(jobs[i].job)
             /\ netCalls' = netCalls)]_vars

\* C5 amended: a worker that begins with skip-existing set and its file present
\* finishes at once without a network call; it returns the file's path as a
\* skip when dry-run is off, and returns no path when dry-run is on.
C5_SkipUnlessDryRun ==
    [][\A i \in 1..Len(jobs) :
         (/\ jobs[i].st = "picked"
          /\ skipExisting
          /\ Exists(fullFilePath(jobs[i].job))
          /\ jobs'[i].st # "picked")
         => (/\ jobs'[i].st = "done"
             /\ netCalls' = netCalls
             /\ IF dryRun
                  THEN jobs'[i].kind = "dry" /\ jobs'[i].ret = None
                  ELSE jobs'[i].kind = "skipped"
                       /\ jobs'[i].ret = fullFilePath(jobs[i].job))]_vars

\* a job was skipped because its file was there
C5_Witness ==
    \E i \in 1..Len(jobs) :
        /\ jobs[i].kind = "skipped"
        /\ jobs[i].ret = fullFilePath(jobs[i].job)
        /\ netCalls = 0

\* C6: no step of a dry run changes the directories, the files or the number
\* of network calls made.
C6_DryRunLeavesNoTrace ==
    [][(dryRun /\ pc \notin {"exit", "error"})
         => (dirs' = dirs /\ files' = files /\ netCalls' = netCalls)]_vars

\* a dry run over a filesystem that already holds files has ended
C6_Witness ==
    /\ dryRun
    /\ pc = "exit"
    /\ Len(jobs) >= 1
    /\ files # <<>>
    /\ ~args.flat

\* C7: in a run with skip-existing (and without dry-run) that follows a run of
\* the same command line in which every job wrote its file, no job reaches the
\* fetch, every finished job is a skip returning its path, and no network call
\* is made.
C7_SecondRunAllSkipped ==
    (run >= 2 /\ prevAllWritten /\ skipExisting /\ ~dryRun) =>
      /\ netCalls = 0
      /\ \A i \in 1..Len(jobs) :
           /\ jobs[i].st \notin {"fetch", "write"}
           /\ jobs[i].st = "done" =>
                (jobs[i].kind = "skipped" /\ jobs[i].ret = fullFilePath(jobs[i].job))

\* the second run of a two-job command line has ended, both jobs skipped
C7_Witness ==
    /\ run = 2
    /\ prevAllWritten
    /\ skipExisting
    /\ ~dryRun
    /\ compressed
    /\ pc = "exit"
    /\ Len(jobs) = 2
    /\ \A i \in 1..Len(jobs) : jobs[i].kind = "skipped"

\* C8: a run that ends normally exits with the number of its failed jobs.
C8_ExitStatusIsFailureCount ==
    pc = "exit" => exitStatus = failedJobs

\* the request as the command line states it
LevTypeSet == {LevTypes[k] : k \in 1..Len(LevTypes)}
ParamsFor(t) ==
    CASE t = "single-level" -> args.single_level_params
      [] t = "model-level" -> args.model_level_params
      [] t = "pressure-level" -> args.pressure_level_params
      [] t = "time-invariant" -> args.time_invariant_params
StepSet == {st \in 0..MaxStep : args.minTimeStep <= st /\ st <= args.maxTimeStep}
LevelUniverse == (0..(MaxLevel + cfg.maxlevel)) \cup PressureValues
\* how often level l is in the effective level list of level type t
LevelCount(t, l) ==
    CASE t = "pressure-level" -> CountIn(args.pressureLevels, l)
      [] t = "model-level" -> IF minModelLevel <= l /\ l <= maxModelLevel THEN 1 ELSE 0
      [] OTHER -> IF l = 0 THEN 1 ELSE 0
LevelLen(t) ==
    CASE t = "pressure-level" -> Len(args.pressureLevels)
      [] t = "model-level" -> Cardinality({l \in LevelUniverse : LevelCount(t, l) = 1})
      [] OTHER -> 1
JobsOfType(t) == {k \in 1..Len(submitted) : submitted[k].levtype = t}
JobsWith(t, f, st, l) ==
    {k \in JobsOfType(t) :
        submitted[k].param = f /\ submitted[k].timestep = st /\ submitted[k].level = l}

\* C9 as claimed: a run that ends normally has submitted, for every level type,
\* |fields| x |steps| x |levels| jobs, no two of them with the same
\* (field, step, level).
C9_OneJobPerTriple ==
    pc = "exit" =>
      \A t \in LevTypeSet :
        /\ Cardinality(JobsOfType(t)) = Len(ParamsFor(t)) * Cardinality(StepSet) * LevelLen(t)
        /\ \A k1, k2 \in JobsOfType(t) :
             (/\ submitted[k1].param = submitted[k2].param
              /\ submitted[k1].timestep = submitted[k2].timestep
              /\ submitted[k1].level = submitted[k2].level) => k1 = k2

\* C9 amended: a run that ends normally has submitted, for every level type,
\* (length of the field list) x |steps| x (length of the level list) jobs, and
\* each (field, step, level) of the step range as many times as the field is
\* in the field list times the level is in the level list: once when neither
\* list repeats an entry.
C9_JobsPerTriple ==
    pc = "exit" =>
      \A t \in LevTypeSet :
        /\ Cardinality(JobsOfType(t)) = Len(ParamsFor(t)) * Cardinality(StepSet) * LevelLen(t)
        /\ \A f \in Fields, st \in 0..MaxStep, l \in LevelUniverse :
             Cardinality(JobsWith(t, f, st, l))
               = CountIn(ParamsFor(t), f) * (IF st \in StepSet THEN 1 ELSE 0) * LevelCount(t, l)

\* two model-level fields over two steps and two levels: eight distinct jobs
C9_Witness ==
    /\ pc = "exit"
    /\ Len(args.model_level_params) = 2
    /\ args.model_level_params[1] # args.model_level_params[2]
    /\ Cardinality(JobsOfType("model-level")) = 8
    /\ Cardinality(StepSet) = 2

\* the request has fields, and its step range or the level list of one of its
\* calls is empty
EmptyRange ==
    /\ Len(Calls) > 0
    /\ \/ args.maxTimeStep < args.minTimeStep
       \/ \E k \in 1..Len(Calls) : Calls[k].levelRange = <<>>

\* C10 as claimed: a request with an empty step range or an empty level list
\* ends in an error, with no directory created and no job submitted.
C10_EmptyRangeIsAnError ==
    EmptyRange => (pc # "exit" /\ dirs = {destRoot} /\ submitted = <<>>)

\* C10 amended: a call whose step range or level list is empty raises no error
\* of its own. It creates its destination directory unless dry-run is on,
\* submits no job, collects no result and returns; it ends in an error only
\* when the executor rejects a concurrency below 1.
C10_EmptyRangeRunsNoJob ==
    (batch >= 1
     /\ (args.maxTimeStep < args.minTimeStep \/ CurrentCall.levelRange = <<>>)) =>
      /\ jobs = <<>>
      /\ results = <<>>
      /\ pc \in {"executor", "collect", "main", "exit", "error"}
      /\ pc = "error" => maxWorkers <= 0
      /\ ~dryRun => DestDir(CurrentCall) \in dirs
      /\ pc \in {"executor", "collect"} => ENABLED Next

\* a pressure-level call without pressure values has created its directory
\* and returned, and the run has ended normally
C10_Witness ==
    /\ pc = "exit"
    /\ batch >= 1
    /\ CurrentCall.levtype = "pressure-level"
    /\ CurrentCall.levelRange = <<>>
    /\ ~dryRun
    /\ DestDir(CurrentCall) \in dirs
    /\ netCalls = 0

C12_NoWorkBeforeError ==
    pc = "error" => (netCalls = 0 /\ files = <<>>)

\* the current call asks for a level type the model has no URL pattern for
NoPattern == batch >= 1 /\ CurrentCall.levtype \notin DOMAIN cfg.pattern

\* C12 amended: the run ends in an error in three cases only, and an error
\* ends the run. An impossible run timestamp fails before any call; a
\* concurrency below 1 fails in the first call before any job: in both no job
\* runs, no network call is made and no file written. A level type without URL
\* pattern fails in the jobs of its own call: none of them makes a network call
\* or writes a file and the call never returns, but the calls before it have
\* run in full.
C12_FatalErrors ==
    /\ pc \in {"unwind", "error"} =>
         \/ /\ batch = 0
            /\ latestTimestamp = None
            /\ netCalls = 0 /\ files = <<>> /\ dirs = {destRoot} /\ submitted = <<>>
         \/ /\ batch = 1
            /\ maxWorkers <= 0
            /\ netCalls = 0 /\ files = <<>> /\ submitted = <<>>
         \/ /\ maxWorkers >= 1
            /\ NoPattern
            /\ jobs # <<>>
    /\ (NoPattern /\ maxWorkers >= 1) =>
         /\ \A i \in 1..Len(jobs) :
              /\ jobs[i].st \in {"queued", "picked", "done"}
              /\ jobs[i].st = "done" => jobs[i].kind = "raised"
         /\ Len(SubmitOrder(CurrentCall)) > 0 => pc \notin {"main", "exit"}
    /\ (pc = "start" /\ args.modelrun # None /\ StrptimeRaises(args.modelrun)) =>
         ~ENABLED (ResolveTimestamp /\ pc' = "main")
    /\ pc = "error" => ~ENABLED NextStart

\* a run ended in an error in its second call, for a level type without URL
\* pattern, after the first call fetched and wrote its file
C12_Witness ==
    /\ pc = "error"
    /\ batch = 2
    /\ NoPattern
    /\ netCalls = 1
    /\ files # <<>>

\* what a run that fetched and wrote the file of job j reports for it
RealOutcome(j) == [url |-> getGribFileUrl(j.job), file |-> fullFilePath(j.job)]

\* C13 as claimed: the results of a dry run are the URL and the local path a
\* real run reports for the same jobs.
C13_DryRunReportsPath ==
    (Returned /\ dryRun) =>
      \A k \in 1..Len(results) : \E i \in 1..Len(jobs) : results[k] = RealOutcome(jobs[i])

\* C13 amended: a job of a real run that wrote its file reports its URL and
\* its path; the same job under dry-run reports the same URL and no path.
C13_DryRunReportsUrlOnly ==
    /\ \A i \in 1..Len(jobs) :
         /\ jobs[i].kind = "written" => (~dryRun /\ Outcome(jobs[i]) = RealOutcome(jobs[i]))
         /\ (dryRun /\ jobs[i].st = "done" /\ jobs[i].kind # "raised") =>
              (/\ jobs[i].kind = "dry"
               /\ Outcome(jobs[i]).url = RealOutcome(jobs[i]).url
               /\ Outcome(jobs[i]).file = None)
    /\ (Returned /\ dryRun) =>
         /\ Len(results) = Len(jobs)
         /\ \A k \in 1..Len(results) : \E i \in 1..Len(jobs) :
              results[k] = [url |-> RealOutcome(jobs[i]).url, file |-> None]

\* a dry run of two jobs has returned, after a real run of the same command
\* line wrote both files
C13_Witness ==
    /\ Returned
    /\ dryRun
    /\ run = 2
    /\ Len(results) = 2
    /\ \A i \in 1..Len(jobs) :
         /\ fullFilePath(jobs[i].job) \in DOMAIN files
         /\ jobs[i].kind = "dry"

\* C14: with no explicit run, a publication delay >= 0 and a run interval that
\* divides the day, the resolved run has minute and second zero and an hour of
\* the day that is a multiple of the run interval, and is not later than the
\* clock reading less the publication delay.
C14_ResolvedRun ==
    (/\ pc = "main"
     /\ args.modelrun = None
     /\ cfg.openDataDeliveryOffsetMinutes >= 0
     /\ cfg.intervalHours >= 1
     /\ 24 % cfg.intervalHours = 0) =>
      /\ latestTimestamp[3] = 0
      /\ latestTimestamp[4] = 0
      /\ latestTimestamp[2] \in 0..23
      /\ latestTimestamp[2] % cfg.intervalHours = 0
      /\ Seconds(latestTimestamp) <= Seconds(utcnow) - 60 * cfg.openDataDeliveryOffsetMinutes

\* a clock reading early on a day, less five hours, resolved to the 21 o'clock
\* run of the day before
C14_Witness ==
    /\ pc = "main"
    /\ args.modelrun = None
    /\ cfg.openDataDeliveryOffsetMinutes = 300
    /\ cfg.intervalHours = 3
    /\ utcnow = <<1, 4, 29, 59>>
    /\ latestTimestamp = <<0, 21, 0, 0>>

\* the levels of the model-level jobs the run submitted
ModelLevelsSubmitted == {submitted[k].level : k \in JobsOfType("model-level")}

\* C15 as claimed: the model-level jobs of a run cover the levels from the
\* requested lower to the requested upper bound, and the model's own bounds
\* only when both requested bounds are 0.
C15_LevelsAsRequested ==
    (pc = "exit" /\ args.model_level_params # <<>>) =>
      ModelLevelsSubmitted =
        IF args.minModelLevel = 0 /\ args.maxModelLevel = 0
          THEN cfg.minlevel..cfg.maxlevel
          ELSE args.minModelLevel..args.maxModelLevel

\* C15 amended: each bound is the requested one when that is above 0 and the
\* model's own otherwise, whatever the other bound is: lower bound 0 with upper
\* bound 2 gives the levels 0, 1, 2 only for a model whose lowest level is 0.
C15_LevelsPerBound ==
    (pc = "exit" /\ args.model_level_params # <<>>) =>
      ModelLevelsSubmitted =
        CASE args.minModelLevel > 0 /\ args.maxModelLevel > 0 ->
               args.minModelLevel..args.maxModelLevel
          [] args.minModelLevel > 0 /\ args.maxModelLevel = 0 ->
               args.minModelLevel..cfg.maxlevel
          [] args.minModelLevel = 0 /\ args.maxModelLevel > 0 ->
               cfg.minlevel..args.maxModelLevel
          [] OTHER -> cfg.minlevel..cfg.maxlevel

\* levels 0 to 2 were requested of a model whose lowest level is 1: the jobs
\* are those of levels 1 and 2
C15_Witness ==
    /\ pc = "exit"
    /\ args.model_level_params = <<"u", "v">>
    /\ args.minModelLevel = 0
    /\ args.maxModelLevel = 2
    /\ cfg.minlevel = 1
    /\ ModelLevelsSubmitted = {1, 2}

\* the field whose call submitted the job that writes path p
FieldsWriting(p) == {submitted[k].param : k \in {n \in 1..Len(submitted) : fullFilePath(submitted[n]) = p}}

\* C16 as claimed: without --flat every file is in <destRoot>/<model>/<HH>/<field>,
\* with --flat in <destRoot>.
C16_ThreeSegments ==
    \A p \in DOMAIN files : \E f \in FieldsWriting(p) :
        p[1] = IF args.flat THEN <<"dest">>
               ELSE <<"dest", cfg.model, TwoDigits(latestTimestamp[2]), f>>

\* C16 amended: without --flat every file is in the existing directory
\* <destRoot>/<model>/grib/<HH>/<field>, model and field in lower case and HH
\* the two-digit hour of the model run; with --flat it is in <destRoot>.
C16_DwdTree ==
    \A p \in DOMAIN files :
        /\ p[1] \in dirs
        /\ \E f \in FieldsWriting(p) :
             p[1] = IF args.flat THEN <<"dest">>
                    ELSE <<"dest", cfg.model, "grib", TwoDigits(latestTimestamp[2]),
                           IF f = "V" THEN "v" ELSE f>>
        /\ ~args.flat => (/\ Len(p[1]) = 5
                          /\ p[1][4] \in {"00", "03", "12"}
                          /\ p[1][4] = "12" <=> args.modelrun = <<0, 1, 2>>)

\* the file of field V of the 12 o'clock run of icon-eu is in
\* dest/icon-eu/grib/12/v
C16_Witness ==
    \E p \in DOMAIN files :
        /\ p[1] = <<"dest", "icon-eu", "grib", "12", "v">>
        /\ files[p] = "complete"
        /\ FieldsWriting(p) = {"V"}

\* the (field, step, level) of a job
Triple(job) == <<job.param, job.timestep, job.level>>

\* C17: two jobs of a call with different (field, step, level) never are both
\* about to write the same file.
C17_NoSharedPath ==
    \A i, k \in 1..Len(jobs) :
        (/\ Triple(jobs[i].job) # Triple(jobs[k].job)
         /\ jobs[i].st = "write"
         /\ jobs[k].st = "write")
        => fullFilePath(jobs[i].job) # fullFilePath(jobs[k].job)

\* how far a worker has come with its job
Rank(st) ==
    CASE st = "queued" -> 0
      [] st = "picked" -> 1
      [] st = "fetch" -> 2
      [] st = "write" -> 3
      [] st = "done" -> 4

\* the jobs of the current call that a step takes from one of the states from
\* to one of the states to
Moved(from, to) ==
    {i \in 1..Len(jobs) : /\ i <= Len(jobs')
                           /\ jobs[i].st \in from
                           /\ jobs'[i].st \in to
                           /\ jobs'[i].st # jobs[i].st}

\* C18: a worker never goes back in its job, so it passes the fetch and the
\* write at most once each. A step makes at most one network call, and makes it
\* for exactly one job that is leaving the fetch; a step changes at most one
\* file, the destination of exactly one job that is leaving the write. A job
\* that ends at the dry-run test, the skip test or on a missing URL pattern
\* makes no network call and changes no file.
C18_OneCallOneWrite ==
    [][/\ \A i \in 1..Len(jobs) : i <= Len(jobs') => Rank(jobs'[i].st) >= Rank(jobs[i].st)
       /\ netCalls' \in {netCalls, netCalls + 1}
       /\ netCalls' = netCalls + 1 <=> Cardinality(Moved({"fetch"}, {"write", "done"})) = 1
       /\ Cardinality(Moved({"fetch"}, {"write", "done"})) <= 1
       /\ Cardinality(Moved({"write"}, {"done"})) <= 1
       /\ files' # files =>
            \E i \in Moved({"write"}, {"done"}) :
                \A q \in DOMAIN files' :
                    q # fullFilePath(jobs[i].job) => (q \in DOMAIN files /\ files'[q] = files[q])
       /\ \A i \in Moved({"queued", "picked"}, {"picked", "fetch", "done"}) :
            netCalls' = netCalls /\ files' = files
      ]_vars

\* a call of two jobs has ended: one job fetched and wrote its file, the other
\* got an HTTP error; two network calls were made and one file exists
C18_Witness ==
    /\ pc = "main"
    /\ Len(jobs) = 2
    /\ {jobs[1].kind, jobs[2].kind} = {"written", "http"}
    /\ netCalls = 2
    /\ Cardinality(DOMAIN files) = 1

\* C19: the step that enters a call always reaches the executor (creating the
\* destination directory does not fail), also when an earlier call of the run
\* has the same destination directory; when not in dry-run the directory of
\* the call exists after that step, and so exists for every job that is about
\* to write. Directories are created by the main thread only, between calls,
\* and never removed.
C19_DirectoryReady ==
    [][/\ (pc = "main" /\ batch' = batch + 1) =>
            /\ pc' = "executor"
            /\ ~dryRun => DestDir(Calls[batch']) \in dirs'
       /\ \A i \in 1..Len(jobs') :
            jobs'[i].st = "write" => jobs'[i].job.destFilePath \in dirs'
       /\ dirs \subseteq dirs'
       /\ dirs' # dirs => (pc = "main" /\ RunningJobs = {})
      ]_vars

\* the second call of a real run has the destination directory of the first,
\* and a job of it is about to write its file
C19_Witness ==
    /\ ~dryRun
    /\ batch = 2
    /\ DestDir(Calls[1]) = DestDir(Calls[2])
    /\ \E i \in 1..Len(jobs) : jobs[i].st = "write" /\ jobs[i].job.destFilePath \in dirs

\* C20: when main enters the next call, every job the call before submitted has
\* its outcome, and all the jobs of that call were submitted; so the jobs that
\* run at any moment of the run are jobs of one call, and there are never more
\* of them than the pool has workers.
C20_NoOverlap ==
    [][/\ batch' # batch =>
            /\ batch' = batch + 1
            /\ AllDone
            /\ collected = 1..Len(jobs)
            /\ Len(jobs) = (IF batch = 0 THEN 0 ELSE Len(SubmitOrder(Calls[batch])))
            /\ Len(submitted) = SumJobs(batch)
       /\ Len(submitted') > Len(submitted) =>
            /\ Len(submitted') - Len(jobs') = SumJobs(batch - 1)
            /\ \A i \in 1..Len(jobs') : jobs'[i].job = submitted'[SumJobs(batch - 1) + i]
       /\ Cardinality(RunningJobs') <= maxWorkers
      ]_vars

\* the first call has ended with its job done, and a job of the second call is
\* running
C20_Witness ==
    /\ batch = 2
    /\ Len(submitted) = 2
    /\ Len(jobs) = 1
    /\ jobs[1].st = "fetch"

\* the ways a fetch ends without a payload: HTTP error, any other failure of
\* urlopen or read, a payload that bz2 cannot decompress
FetchFailures == {"http", "transport", "decompress"}

\* C21: a job ends with a failed fetch or decompression only in a step it takes
\* from the fetch, never after it has been at its write, and that step changes
\* no file: no file is created, and a file that is there keeps its content.
\* The steps the job took before (out of the queue, through the dry-run and
\* skip tests) change no file either, and whatever a step changes is the
\* destination of a job that leaves its write.
C21_FailedFetchKeepsFile ==
    [][/\ \A i \in 1..Len(jobs) :
            (i <= Len(jobs') /\ jobs[i].st # "done" /\ jobs'[i].st = "done"
                /\ jobs'[i].kind \in FetchFailures) =>
              /\ jobs[i].st = "fetch"
              /\ files' = files
       /\ Moved({"queued", "picked", "fetch"}, {"picked", "fetch", "write", "done"}) # {} =>
            files' = files
       /\ files' # files =>
            \E i \in Moved({"write"}, {"done"}) :
                /\ jobs'[i].kind \notin FetchFailures
                /\ \A q \in DOMAIN files \cup DOMAIN files' :
                     q # fullFilePath(jobs[i].job) =>
                        (q \in DOMAIN files /\ q \in DOMAIN files' /\ files'[q] = files[q])
      ]_vars

\* a second run without skip-existing finds the complete file of the first
\* run; its job has failed at the fetch and the file is still complete
C21_Witness ==
    /\ run = 2
    /\ ~dryRun
    /\ ~skipExisting
    /\ \E i \in 1..Len(jobs) :
         /\ jobs[i].kind \in FetchFailures
         /\ Exists(fullFilePath(jobs[i].job))
         /\ files[fullFilePath(jobs[i].job)] = "complete"
         /\ \A k \in 1..Len(jobs) : k # i => jobs[k].st = "queued"
====
